---- MODULE Spec2Model ----
(***************************************************************************)
(* Model of sell-nfts.js (src/unnamed/part_000; src/main.js is an abridged *)
(* copy of the same script with the same control flow): start-up           *)
(* validation, the sequential wallet loop of main(), and listNFT().        *)
(*                                                                         *)
(* The script is single-threaded; every `await` is a suspension point, so  *)
(* each action below is the synchronous code between two suspensions.      *)
(* The outcomes of the external collaborators (the holdings GET, the       *)
(* typed-data signing, the listing POST) are chosen nondeterministically.  *)
(* Strings the code inspects are sequences of one-character strings.       *)
(***************************************************************************)
EXTENDS Naturals, Integers, Sequences, FiniteSets, TLC

(* ------------------------------ bounds -------------------------------- *)
\* Largest number of lines in WALLETS / PRIVATE_KEYS.
MaxWallets == 2
\* Largest number of nfts the holdings endpoint returns over one run.
MaxNftsPerRun == 2

\* Date.now() when the process starts, in milliseconds.
ProcessStartMs == 1500

(* --------------------------- program constants ------------------------ *)
\* setTimeout(resolve, 2000)
DELAY_MS == 2000
\* ethers.utils.parseEther: parseUnits(value, 18)
ETHER_DECIMALS == 18

(* ------------------------------ strings ------------------------------- *)
Digits == {"0", "1", "2", "3", "4", "5", "6", "7", "8", "9"}

\* One character of String.prototype.toLowerCase over the letters used here.
LowerChar(c) ==
    CASE c = "A" -> "a"
      [] c = "B" -> "b"
      [] c = "C" -> "c"
      [] c = "D" -> "d"
      [] OTHER -> c

\* String.prototype.toLowerCase
ToLowerCase(s) == [k \in DOMAIN s |-> LowerChar(s[k])]

(* --------------------------- environment ------------------------------ *)
\* A process.env entry: unset (undefined), or set to a string.
Undefined == [set |-> FALSE, val |-> <<>>]
Str(s) == [set |-> TRUE, val |-> s]

\* JavaScript truthiness of a process.env entry: undefined and "" are falsy.
Truthy(e) == e.set /\ e.val # <<>>

\* Values offered for TARGET_CONTRACT_ADDRESS.
TargetValues == {<<"a", "b">>, <<"A", "b">>}
\* Contract addresses the holdings endpoint reports.
NftContracts == {<<"a", "b">>, <<"c", "d">>}
\* Values offered for LISTING_PRICE_IN_ETH: "0.05" and a price with 19 decimals.
PriceValues ==
    { <<"0", ".", "0", "5">>,
      <<"0", ".", "0", "0", "0", "0", "0", "0", "0", "0", "0", "0",
        "0", "0", "0", "0", "0", "0", "0", "0", "1">> }
\* Values offered for LISTING_DURATION_MINUTES: "30" and "0".
DurationValues == {<<"3", "0">>, <<"0">>}
\* Values the offerers' Seaport counter may have on chain during the run.
CounterValues == {0, 1}

\* A private-key line: 0 is a malformed key, k > 0 a well-formed key.
MalformedKey == 0
\* The address ethers derives from a well-formed key.
AddressOf(privateKey) == 10 * privateKey

\* The lists after split("\n").map(trim).filter(Boolean): a wallet line is
\* the address it names, a key line is a well-formed key or malformed.  The
\* first wallet line names the address of the first key, the later lines
\* name addresses that no offered key derives.
WalletLists ==
    {[k \in 1..n |-> IF k = 1 THEN AddressOf(1) ELSE AddressOf(k) + 1] :
       n \in 0..MaxWallets}
KeyLists ==
    UNION {[1..n -> {0, 1}] : n \in 0..MaxWallets}
KeyListOf(f) == [k \in DOMAIN f |-> IF f[k] = 1 THEN k ELSE MalformedKey]

VARIABLES
    env,        \* process.env: the seven configuration values
    pc,         \* position of the script
    i,          \* wallet loop index (1-based; the code's i + 1)
    wallet,     \* the ethers.Wallet of this iteration: its key and address
    seaportCounter, \* the offerers' counter on the Seaport contract
    orderComponents, \* listNFT's order: <<>> or <<the order>>
    signatures, \* history of the typed-data signatures produced
    targetNfts, \* the filtered holdings of this wallet
    t,          \* position of the for-of loop in targetNfts
    inflight,   \* HTTP requests issued and not yet answered
    fetched,    \* number of nfts the holdings endpoint returned so far
    log,        \* listing_log.txt: the entries appended by logToFile
    calls,      \* history of external calls and of listNFT returns
    responses,  \* history of the answers of the holdings endpoint
    clock,      \* milliseconds spent so far in the delays of line 192
    stderr,     \* the diagnostic printed when the process stops early
    exitCode    \* -1 while running, else the process exit status

vars == <<env, pc, i, wallet, targetNfts, t, inflight, fetched, log, calls,
          responses, clock, stderr, exitCode, seaportCounter, orderComponents,
          signatures>>

\* WALLETS / PRIVATE_KEYS as evaluated at lines 26-27 (defined when set).
WALLETS == env.WALLETS.val
PRIVATE_KEYS == env.PRIVATE_KEYS.val
TARGET_CONTRACT_ADDRESS == env.TARGET_CONTRACT_ADDRESS.val
LISTING_PRICE_IN_ETH == env.LISTING_PRICE_IN_ETH.val

Entry(tag, w, id) == [tag |-> tag, w |-> w, id |-> id]
Call(kind, w, id, ok) ==
    [kind |-> kind, w |-> w, id |-> id, ok |-> ok, at |-> clock]

\* logToFile(message)
logToFile(l, e) == Append(l, e)

Init ==
    /\ env \in
         [ OPENSEA_API_KEY : {Undefined, Str(<<>>), Str(<<"k">>)},
           RPC_URL : {Undefined, Str(<<"r">>)},
           TARGET_CONTRACT_ADDRESS : {Undefined} \cup {Str(v) : v \in TargetValues},
           LISTING_PRICE_IN_ETH : {Undefined} \cup {Str(v) : v \in PriceValues},
           LISTING_DURATION_MINUTES : {Undefined} \cup {Str(v) : v \in DurationValues},
           WALLETS : {Undefined} \cup {Str(v) : v \in WalletLists},
           PRIVATE_KEYS : {Undefined} \cup {Str(KeyListOf(f)) : f \in KeyLists} ]
    /\ pc = "startup"
    /\ i = 1
    /\ wallet = [address |-> 0, privateKey |-> MalformedKey]
    /\ seaportCounter \in CounterValues
    /\ orderComponents = <<>>
    /\ signatures = <<>>
    /\ targetNfts = <<>>
    /\ t = 1
    /\ inflight = 0
    /\ fetched = 0
    /\ log = <<>>
    /\ calls = <<>>
    /\ responses = <<>>
    /\ clock = 0
    /\ stderr = "none"
    /\ exitCode = -1

(* ------------------------- start-up (lines 19-38) --------------------- *)
\* Lines 26-38 in order: the split of an unset list throws a TypeError
\* before the checks run; then the required-values check; then the
\* length check.  "ok" lets the script reach main().
\* A plausible slip: empty lists are treated as missing values.
validationRejectingEmptyLists(e) ==
    IF ~e.WALLETS.set \/ ~e.PRIVATE_KEYS.set THEN "TypeError"
    ELSE IF \/ ~Truthy(e.OPENSEA_API_KEY)
            \/ ~Truthy(e.RPC_URL)
            \/ ~Truthy(e.TARGET_CONTRACT_ADDRESS)
            \/ ~Truthy(e.LISTING_PRICE_IN_ETH)
            \/ ~Truthy(e.LISTING_DURATION_MINUTES)
            \/ e.WALLETS.val = <<>>
            \/ e.PRIVATE_KEYS.val = <<>> THEN "EnvMissing"
    ELSE IF Len(e.WALLETS.val) # Len(e.PRIVATE_KEYS.val) THEN "LengthMismatch"
    ELSE "ok"

validation(e) ==
    IF ~e.WALLETS.set \/ ~e.PRIVATE_KEYS.set THEN "TypeError"
    ELSE IF \/ ~Truthy(e.OPENSEA_API_KEY)
            \/ ~Truthy(e.RPC_URL)
            \/ ~Truthy(e.TARGET_CONTRACT_ADDRESS)
            \/ ~Truthy(e.LISTING_PRICE_IN_ETH)
            \/ ~Truthy(e.LISTING_DURATION_MINUTES) THEN "EnvMissing"
    ELSE IF Len(e.WALLETS.val) # Len(e.PRIVATE_KEYS.val) THEN "LengthMismatch"
    ELSE "ok"

\* The process stops with status 1 and the given diagnostic on stderr.
Exit1(diag) ==
    /\ stderr' = diag
    /\ exitCode' = 1
    /\ pc' = "done"

Startup ==
    /\ pc = "startup"
    /\ IF validation(env) = "ok"
         THEN /\ pc' = "main"
              /\ UNCHANGED <<stderr, exitCode>>
         ELSE Exit1(validation(env))
    /\ UNCHANGED <<env, seaportCounter, orderComponents, signatures,
                   responses, i, wallet, targetNfts, t, inflight, fetched,
                   log, calls, clock>>

(* --------------------------- getWallet -------------------------------- *)
\* new ethers.Wallet(privateKey, provider) builds the signing key in the
\* constructor: a malformed key makes the constructor throw, a well-formed
\* key yields a signer with the key's address.
getWalletThrows(privateKey) == privateKey = MalformedKey
getWallet(privateKey) ==
    [address |-> AddressOf(privateKey), privateKey |-> privateKey]

(* ----------------------------- main ----------------------------------- *)
\* main(), lines 166-168: the start message.
MainStart ==
    /\ pc = "main"
    /\ log' = logToFile(log, Entry("BEGIN", Len(WALLETS), 0))
    /\ i' = 1
    /\ pc' = "loop"
    /\ UNCHANGED <<env, seaportCounter, orderComponents, signatures,
                   responses, wallet, targetNfts, t, inflight, fetched,
                   calls, clock, stderr, exitCode>>

\* Lines 170-181 for a well-formed key: the wallet header, getWallet, and
\* the holdings GET is issued; main suspends on it.
WalletBegin ==
    /\ pc = "loop"
    /\ i <= Len(WALLETS)
    /\ ~getWalletThrows(PRIVATE_KEYS[i])
    /\ log' = logToFile(log, Entry("HEADER", i, 0))
    /\ wallet' = getWallet(PRIVATE_KEYS[i])
    /\ calls' = Append(calls, Call("GET", i, WALLETS[i], TRUE))
    /\ inflight' = inflight + 1
    /\ pc' = "holdings"
    /\ UNCHANGED <<env, seaportCounter, orderComponents, signatures,
                   responses, i, targetNfts, t, fetched, clock, stderr,
                   exitCode>>

\* Lines 170-177 for a malformed key: getWallet throws outside the try of
\* line 178, main() rejects, and the handler of lines 205-209 logs the
\* fatal error and exits with status 1.
WalletFatal ==
    /\ pc = "loop"
    /\ i <= Len(WALLETS)
    /\ getWalletThrows(PRIVATE_KEYS[i])
    /\ log' = logToFile(logToFile(log, Entry("HEADER", i, 0)),
                        Entry("FATAL", i, 0))
    /\ Exit1("Fatal")
    /\ UNCHANGED <<env, seaportCounter, orderComponents, signatures,
                   responses, i, wallet, targetNfts, t, inflight, fetched,
                   calls, clock>>

\* A plausible slip: the exit status reports whether any listing failed.
MainEndStatusByFailures ==
    /\ pc = "loop"
    /\ i > Len(WALLETS)
    /\ log' = logToFile(log, Entry("END", 0, 0))
    /\ exitCode' = IF \E k \in DOMAIN log : log[k].tag = "FAILED" THEN 1 ELSE 0
    /\ pc' = "done"
    /\ UNCHANGED <<env, seaportCounter, orderComponents, signatures,
                   responses, i, wallet, targetNfts, t, inflight, fetched,
                   calls, clock, stderr>>

\* Lines 200-202: the loop is over, the end message is logged, main()
\* resolves and the process ends with status 0.
MainEnd ==
    /\ pc = "loop"
    /\ i > Len(WALLETS)
    /\ log' = logToFile(log, Entry("END", 0, 0))
    /\ exitCode' = 0
    /\ pc' = "done"
    /\ UNCHANGED <<env, seaportCounter, orderComponents, signatures,
                   responses, i, wallet, targetNfts, t, inflight, fetched,
                   calls, clock, stderr>>

(* ----------------------- the holdings response ------------------------ *)
\* A response body {nfts: [...]}: each nft has a contract and an identifier
\* (here its rank among the nfts returned during the run).
Bodies(n) ==
    UNION { { [p \in 1..m |-> [contract |-> f[p], identifier |-> fetched + p]] :
                f \in [1..m -> NftContracts] } : m \in 0..n }

\* A plausible slip: the contract is compared without folding the case.
IsTargetExact(nft) == nft.contract = TARGET_CONTRACT_ADDRESS

\* Line 182: data.nfts.filter(nft => nft.contract.toLowerCase() ===
\* TARGET_CONTRACT_ADDRESS.toLowerCase())
IsTarget(nft) ==
    ToLowerCase(nft.contract) = ToLowerCase(TARGET_CONTRACT_ADDRESS)
FilterTarget(nfts) == SelectSeq(nfts, IsTarget)

\* A plausible slip: an empty filter result is reported as a fetch failure.
NoTargetsAsFailure ==
    /\ log' = logToFile(log, Entry("FETCH_ERROR", i, 0))
    /\ i' = i + 1
    /\ pc' = "loop"
    /\ UNCHANGED <<targetNfts, t>>

\* Lines 183-187: no nft of the target contract; log it and `continue`.
NoTargets ==
    /\ log' = logToFile(log, Entry("NONE", i, 0))
    /\ i' = i + 1
    /\ pc' = "loop"
    /\ UNCHANGED <<targetNfts, t>>

\* The sequence in reverse order.
Reverse(q) == [k \in 1..Len(q) |-> q[Len(q) + 1 - k]]

\* A plausible slip: the tokens are listed from the last one back.
FoundTargetsReversed(found) ==
    /\ log' = logToFile(log, Entry("FOUND", i, Len(found)))
    /\ targetNfts' = Reverse(found)
    /\ t' = 1
    /\ pc' = "token"
    /\ UNCHANGED i

\* Lines 188-190: the count is logged and the for-of loop starts.
FoundTargets(found) ==
    /\ log' = logToFile(log, Entry("FOUND", i, Len(found)))
    /\ targetNfts' = found
    /\ t' = 1
    /\ pc' = "token"
    /\ UNCHANGED i

\* Lines 179-190: the GET answered 2xx with a usable body.
HoldingsOk ==
    /\ pc = "holdings"
    /\ \E nfts \in Bodies(MaxNftsPerRun - fetched) :
         /\ fetched' = fetched + Len(nfts)
         /\ responses' = Append(responses, [w |-> i, ok |-> TRUE, nfts |-> nfts])
         /\ IF Len(FilterTarget(nfts)) = 0
              THEN NoTargets
              ELSE FoundTargets(FilterTarget(nfts))
    /\ inflight' = inflight - 1
    /\ UNCHANGED <<env, seaportCounter, orderComponents, signatures, wallet,
                   calls, clock, stderr, exitCode>>

\* A plausible slip: the catch of the wallet loop rethrows.
HoldingsFailRethrows ==
    /\ pc = "holdings"
    /\ log' = logToFile(log, Entry("FETCH_ERROR", i, 0))
    /\ responses' = Append(responses, [w |-> i, ok |-> FALSE, nfts |-> <<>>])
    /\ inflight' = inflight - 1
    /\ Exit1("Fatal")
    /\ UNCHANGED <<env, seaportCounter, orderComponents, signatures, wallet,
                   i, targetNfts, t, fetched, calls, clock>>

\* Lines 194-199: the holdings step threw inside the try of line 178 (a
\* network error, a non-2xx status, or a body without a usable nfts array:
\* data.nfts.filter or nft.contract.toLowerCase throws a TypeError); the
\* catch logs the reason and the wallet loop goes on.
HoldingsFail ==
    /\ pc = "holdings"
    /\ log' = logToFile(log, Entry("FETCH_ERROR", i, 0))
    /\ responses' = Append(responses, [w |-> i, ok |-> FALSE, nfts |-> <<>>])
    /\ inflight' = inflight - 1
    /\ i' = i + 1
    /\ pc' = "loop"
    /\ UNCHANGED <<env, seaportCounter, orderComponents, signatures, wallet,
                   targetNfts, t, fetched, calls, clock, stderr, exitCode>>

(* ---------------------------- parseEther ------------------------------ *)
\* ethers.utils.parseEther(priceInEth) is parseFixed(value, 18): the value
\* must match /^-?[0-9.]+$/, must not be ".", must hold at most one ".",
\* and its fraction, trailing zeros removed, must fit 18 digits.
Unsigned(s) == IF s # <<>> /\ s[1] = "-" THEN Tail(s) ELSE s
MatchesDecimal(s) ==
    /\ Unsigned(s) # <<>>
    /\ \A k \in DOMAIN Unsigned(s) : Unsigned(s)[k] \in Digits \cup {"."}
Dots(s) == {k \in DOMAIN s : s[k] = "."}
FractionOf(s) ==
    IF Dots(s) = {} THEN <<>>
    ELSE SubSeq(s, (CHOOSE d \in Dots(s) : TRUE) + 1, Len(s))
RECURSIVE TrimZeros(_)
TrimZeros(s) ==
    IF s # <<>> /\ s[Len(s)] = "0" THEN TrimZeros(SubSeq(s, 1, Len(s) - 1))
    ELSE s
\* A plausible slip: digits beyond the 18th decimal are dropped silently.
parseEtherTruncates(s) ==
    \/ ~MatchesDecimal(s)
    \/ Unsigned(s) = <<".">>
    \/ Cardinality(Dots(s)) > 1

parseEtherThrows(s) ==
    \/ ~MatchesDecimal(s)
    \/ Unsigned(s) = <<".">>
    \/ Cardinality(Dots(s)) > 1
    \/ Len(TrimZeros(FractionOf(Unsigned(s)))) > ETHER_DECIMALS

(* ----------------------------- listNFT -------------------------------- *)
\* The token the for-of loop of line 190 is at.
nft == targetNfts[t]

\* parseInt(string): an optional sign and the leading decimal digits (the
\* values offered are such numerals).
DigitValue(c) ==
    CASE c = "0" -> 0 [] c = "1" -> 1 [] c = "2" -> 2 [] c = "3" -> 3
      [] c = "4" -> 4 [] c = "5" -> 5 [] c = "6" -> 6 [] c = "7" -> 7
      [] c = "8" -> 8 [] c = "9" -> 9
RECURSIVE ParseDigits(_, _)
ParseDigits(s, acc) ==
    IF s = <<>> \/ s[1] \notin Digits THEN acc
    ELSE ParseDigits(Tail(s), 10 * acc + DigitValue(s[1]))
parseInt(s) ==
    IF s # <<>> /\ s[1] = "-" THEN 0 - ParseDigits(Tail(s), 0)
    ELSE ParseDigits(s, 0)

\* Date.now(): milliseconds; the process starts at ProcessStartMs and the
\* time modelled as passing is that of the delays.
DateNow == ProcessStartMs + clock

\* Line 61: Math.floor(Date.now() / 1000)
now == DateNow \div 1000

\* A plausible slip: the minutes are not converted to seconds.
durationInMinutes == parseInt(env.LISTING_DURATION_MINUTES.val)

\* Line 62: parseInt(LISTING_DURATION_MINUTES) * 60
durationInSeconds == parseInt(env.LISTING_DURATION_MINUTES.val) * 60

\* A plausible slip: the order names the configured wallet line, not the
\* signer's address.
BuildOrderForWalletLine ==
    [ offerer |-> WALLETS[i],
      token |-> nft.contract,
      identifier |-> nft.identifier,
      recipient |-> WALLETS[i],
      startTime |-> now,
      endTime |-> now + durationInSeconds,
      counter |-> 0,
      builtAt |-> DateNow ]

\* Lines 103-132: the order components (the fields that vary).
BuildOrder ==
    [ offerer |-> wallet.address,
      token |-> nft.contract,
      identifier |-> nft.identifier,
      recipient |-> wallet.address,
      startTime |-> now,
      endTime |-> now + durationInSeconds,
      counter |-> 0,
      builtAt |-> DateNow ]

\* A plausible slip: the catch swallows the error without logging it.
ListFailedSilently(l, hasResponse) ==
    /\ log' = l
    /\ orderComponents' = <<>>
    /\ pc' = "delay"

\* Lines 153-161: the catch of listNFT.  The FAILED entry is logged, and
\* the error details too when the error carries an HTTP response; listNFT
\* returns false and main starts the timer of line 192.
ListFailed(l, hasResponse) ==
    /\ log' = IF hasResponse
                THEN logToFile(logToFile(l, Entry("FAILED", i, nft.identifier)),
                               Entry("FAILED_DETAILS", i, nft.identifier))
                ELSE logToFile(l, Entry("FAILED", i, nft.identifier))
    /\ orderComponents' = <<>>
    /\ pc' = "delay"

\* Lines 191, 55-62 and, on a price that parseEther rejects, 153-161: the
\* START entry is logged; a rejected price fails the attempt, else the
\* order is built and _signTypedData is called (line 134).
ListStart ==
    /\ pc = "token"
    /\ IF parseEtherThrows(LISTING_PRICE_IN_ETH)
         THEN /\ ListFailed(logToFile(log, Entry("START", i, nft.identifier)),
                            FALSE)
              /\ calls' = Append(calls, Call("RETURN", i, nft.identifier, FALSE))
         ELSE /\ log' = logToFile(log, Entry("START", i, nft.identifier))
              /\ orderComponents' = <<BuildOrder>>
              /\ pc' = "sign"
              /\ UNCHANGED calls
    /\ UNCHANGED <<env, seaportCounter, signatures, responses, i, wallet,
                   targetNfts, t, inflight, fetched, clock, stderr, exitCode>>

\* A plausible slip: axios.post is not awaited, so listNFT returns while
\* the POST is still in flight.
SignOkNoAwait ==
    /\ pc = "sign"
    /\ calls' = calls \o <<Call("SIGN", i, nft.identifier, TRUE),
                           Call("POST", i, nft.identifier, TRUE),
                           Call("RETURN", i, nft.identifier, TRUE)>>
    /\ log' = logToFile(log, Entry("SUCCESS", i, nft.identifier))
    /\ signatures' = Append(signatures, [w |-> i, order |-> orderComponents[1],
                                         key |-> wallet.privateKey])
    /\ orderComponents' = <<>>
    /\ inflight' = inflight + 1
    /\ pc' = "delay"
    /\ UNCHANGED <<env, seaportCounter, responses, i, wallet, targetNfts, t,
                   fetched, clock, stderr, exitCode>>

\* Line 134 resolved: the signature exists and the POST of line 144 is
\* issued; listNFT suspends on it.
SignOk ==
    /\ pc = "sign"
    /\ calls' = calls \o <<Call("SIGN", i, nft.identifier, TRUE),
                           Call("POST", i, nft.identifier, TRUE)>>
    /\ signatures' = Append(signatures, [w |-> i, order |-> orderComponents[1],
                                         key |-> wallet.privateKey])
    /\ inflight' = inflight + 1
    /\ pc' = "post"
    /\ UNCHANGED <<env, seaportCounter, orderComponents, responses, i,
                   wallet, targetNfts, t, fetched, log, clock, stderr,
                   exitCode>>

\* Line 134 rejected: no signature; the catch of lines 153-161.
SignFail ==
    /\ pc = "sign"
    /\ ListFailed(log, FALSE)
    /\ calls' = calls \o <<Call("SIGN", i, nft.identifier, FALSE),
                           Call("RETURN", i, nft.identifier, FALSE)>>
    /\ UNCHANGED <<env, seaportCounter, signatures, responses, i, wallet,
                   targetNfts, t, inflight, fetched, clock, stderr, exitCode>>

\* Lines 144-151: the POST answered 2xx; SUCCESS is logged, listNFT
\* returns true.
PostOk ==
    /\ pc = "post"
    /\ log' = logToFile(log, Entry("SUCCESS", i, nft.identifier))
    /\ calls' = Append(calls, Call("RETURN", i, nft.identifier, TRUE))
    /\ inflight' = inflight - 1
    /\ orderComponents' = <<>>
    /\ pc' = "delay"
    /\ UNCHANGED <<env, seaportCounter, signatures, responses, i, wallet,
                   targetNfts, t, fetched, clock, stderr, exitCode>>

\* Lines 144, 153-161: axios.post rejected, with an HTTP response (a
\* non-2xx status) or without one (a network error).
PostFail ==
    /\ pc = "post"
    /\ \E hasResponse \in BOOLEAN : ListFailed(log, hasResponse)
    /\ calls' = Append(calls, Call("RETURN", i, nft.identifier, FALSE))
    /\ inflight' = inflight - 1
    /\ UNCHANGED <<env, seaportCounter, signatures, responses, i, wallet,
                   targetNfts, t, fetched, clock, stderr, exitCode>>

\* Whether the last listNFT call returned false.
LastAttemptFailed ==
    /\ calls # <<>>
    /\ calls[Len(calls)].kind = "RETURN"
    /\ ~calls[Len(calls)].ok

\* A plausible slip: a failed attempt is retried instead of moving on.
DelayDoneRetry ==
    /\ pc = "delay"
    /\ clock' = clock + DELAY_MS
    /\ calls' = Append(calls, [Call("DELAY", i, nft.identifier, TRUE)
                                EXCEPT !.at = clock + DELAY_MS])
    /\ IF LastAttemptFailed
         THEN /\ pc' = "token"
              /\ UNCHANGED <<i, t>>
         ELSE IF t < Len(targetNfts)
         THEN /\ t' = t + 1
              /\ pc' = "token"
              /\ UNCHANGED i
         ELSE /\ i' = i + 1
              /\ pc' = "loop"
              /\ UNCHANGED t
    /\ UNCHANGED <<env, seaportCounter, orderComponents, signatures,
                   responses, wallet, targetNfts, inflight, fetched, log,
                   stderr, exitCode>>

\* A plausible slip: the pause is taken only after a successful listing.
DelayDoneOnlyOnSuccess ==
    /\ pc = "delay"
    /\ IF LastAttemptFailed
         THEN UNCHANGED <<clock, calls>>
         ELSE /\ clock' = clock + DELAY_MS
              /\ calls' = Append(calls, [Call("DELAY", i, nft.identifier, TRUE)
                                          EXCEPT !.at = clock + DELAY_MS])
    /\ IF t < Len(targetNfts)
         THEN /\ t' = t + 1
              /\ pc' = "token"
              /\ UNCHANGED i
         ELSE /\ i' = i + 1
              /\ pc' = "loop"
              /\ UNCHANGED t
    /\ UNCHANGED <<env, seaportCounter, orderComponents, signatures,
                   responses, wallet, targetNfts, inflight, fetched, log,
                   stderr, exitCode>>

\* Line 192 resolved after DELAY_MS: the for-of loop takes the next token,
\* or the wallet loop its next index.
DelayDone ==
    /\ pc = "delay"
    /\ clock' = clock + DELAY_MS
    /\ calls' = Append(calls, [Call("DELAY", i, nft.identifier, TRUE)
                                EXCEPT !.at = clock + DELAY_MS])
    /\ IF t < Len(targetNfts)
         THEN /\ t' = t + 1
              /\ pc' = "token"
              /\ UNCHANGED i
         ELSE /\ i' = i + 1
              /\ pc' = "loop"
              /\ UNCHANGED t
    /\ UNCHANGED <<env, seaportCounter, orderComponents, signatures,
                   responses, wallet, targetNfts, inflight, fetched, log,
                   stderr, exitCode>>

(* --------------------------- specification ---------------------------- *)
Next ==
    \/ Startup
    \/ MainStart
    \/ WalletBegin
    \/ WalletFatal
    \/ MainEnd
    \/ HoldingsOk
    \/ HoldingsFail
    \/ ListStart
    \/ SignOk
    \/ SignFail
    \/ PostOk
    \/ PostFail
    \/ DelayDone

Spec == Init /\ [][Next]_vars

\* Every await settles (each network call and each signing call returns or
\* fails, the timer fires) and the event loop then runs the continuation:
\* a step that is possible is eventually taken.
LiveSpec == Spec /\ WF_vars(Next)

(* ------------------- observations on the histories -------------------- *)
\* Number of configured wallets (0 when WALLETS is unset).
NumWallets == Len(WALLETS)

\* Positions of the log entries with a tag for wallet w.
LogAt(tag, w) == {k \in DOMAIN log : log[k].tag = tag /\ log[k].w = w}
\* Positions of the log entries with a tag for token id of wallet w.
LogOf(tag, w, id) == {k \in DOMAIN log : log[k] = Entry(tag, w, id)}
\* Positions of the calls of a kind for wallet w.
CallsAt(kind, w) == {k \in DOMAIN calls : calls[k].kind = kind /\ calls[k].w = w}
\* Positions of the calls of a kind for token id of wallet w.
CallsOf(kind, w, id) == {k \in CallsAt(kind, w) : calls[k].id = id}
\* Positions of all calls of a kind.
CallsOfKind(kind) == {k \in DOMAIN calls : calls[k].kind = kind}

\* The holdings GET for wallet w was issued.
Queried(w) == CallsAt("GET", w) # {}
\* The holdings GET for wallet w succeeded / failed.
Answered(w) == \E k \in DOMAIN responses : responses[k].w = w /\ responses[k].ok
QueryFailed(w) == \E k \in DOMAIN responses : responses[k].w = w /\ ~responses[k].ok
\* The nfts of the target contract in the answer for wallet w.
Matching(w) ==
    LET k == CHOOSE k \in DOMAIN responses : responses[k].w = w
    IN  FilterTarget(responses[k].nfts)
MatchingIds(w) == {Matching(w)[k].identifier : k \in DOMAIN Matching(w)}
\* The iteration of the wallet loop for wallet w is over.
Settled(w) == pc = "done" \/ (pc \notin {"startup", "main"} /\ i > w)
\* The run reached the end of the wallet loop.
Finished == pc = "done" /\ \E k \in DOMAIN log : log[k].tag = "END"

(* ------------------------------ claims -------------------------------- *)

\* C1: a failed listing attempt aborts only that token: listNFT returns
\* false for it, and by the end of the run every matching token of the
\* same wallet has been attempted and every later wallet has been queried.
C1_FailedListingAbortsOnlyThatToken ==
    pc = "done" =>
      \A w \in 1..NumWallets :
        LogAt("FAILED", w) # {} =>
          /\ \A k \in LogAt("FAILED", w) :
               \E c \in CallsOf("RETURN", w, log[k].id) : ~calls[c].ok
          /\ \A id \in MatchingIds(w) : LogOf("START", w, id) # {}
          /\ \A j \in (w + 1)..NumWallets : Queried(j)

\* C2: a failed holdings query for wallet w skips only wallet w: nothing
\* is attempted for w, the reason is logged, and by the end of the run
\* every later wallet has been queried.
C2_FailedQuerySkipsOnlyThatWallet ==
    pc = "done" =>
      \A w \in 1..NumWallets :
        QueryFailed(w) =>
          /\ LogAt("START", w) = {}
          /\ CallsAt("SIGN", w) = {} /\ CallsAt("POST", w) = {}
          /\ LogAt("FETCH_ERROR", w) # {}
          /\ \A j \in (w + 1)..NumWallets : Queried(j)

\* C3: an error local to one wallet never escalates: with a configuration
\* that passes validation (malformed private keys included) the run never
\* ends fatally; it queries every wallet, logs the completion summary and
\* exits 0.
C3_WalletErrorNeverEscalates ==
    (pc = "done" /\ validation(env) = "ok") =>
      /\ exitCode = 0
      /\ Finished
      /\ \A w \in 1..NumWallets : Queried(w)

\* C4: every matching token of a successful holdings query is attempted
\* exactly once per run: never more than one START, one signature and one
\* POST for it, and exactly one START once its wallet is settled.
C4_EachTokenAttemptedExactlyOnce ==
    \A w \in 1..NumWallets :
      Answered(w) =>
        \A id \in MatchingIds(w) :
          /\ Cardinality(LogOf("START", w, id)) <= 1
          /\ Cardinality(CallsOf("SIGN", w, id)) <= 1
          /\ Cardinality(CallsOf("POST", w, id)) <= 1
          /\ Cardinality(CallsOf("RETURN", w, id)) <= 1
          /\ Settled(w) => /\ Cardinality(LogOf("START", w, id)) = 1
                           /\ Cardinality(CallsOf("RETURN", w, id)) = 1

\* C4 witness: a finished run in which a wallet had two matching tokens,
\* one of them failed, and each was started once.
C4_Witness ==
    /\ Finished
    /\ \E w \in 1..NumWallets :
         /\ Answered(w)
         /\ Cardinality(MatchingIds(w)) = 2
         /\ LogAt("FAILED", w) # {}
         /\ \A id \in MatchingIds(w) : Cardinality(LogOf("START", w, id)) = 1

\* C5: a run that reaches the end of the wallet loop exits 0 whatever
\* failed on the way; status 1 only comes from a failed start-up check or
\* from an error thrown outside the per-wallet and per-token guards (the
\* split of an unset list, or getWallet on the wallet being started).
C5_ExitStatus ==
    /\ Finished => exitCode = 0
    /\ exitCode = 1 =>
         /\ pc = "done" /\ ~Finished
         /\ \/ stderr \in {"EnvMissing", "LengthMismatch"} /\ log = <<>>
            \/ stderr = "TypeError" /\ log = <<>>
                 /\ (~env.WALLETS.set \/ ~env.PRIVATE_KEYS.set)
            \/ /\ stderr = "Fatal"
               /\ getWalletThrows(PRIVATE_KEYS[i])
               /\ log[Len(log)] = Entry("FATAL", i, 0)
               /\ log[Len(log) - 1] = Entry("HEADER", i, 0)

\* C5 witness: a finished run with a failed listing and a failed holdings
\* query that exited 0.
C5_Witness ==
    /\ Finished
    /\ exitCode = 0
    /\ \E k \in DOMAIN log : log[k].tag = "FAILED"
    /\ \E k \in DOMAIN log : log[k].tag = "FETCH_ERROR"

\* C6: with a required value missing (one of the five scalars unset or
\* empty, WALLETS or PRIVATE_KEYS unset) or with lists of different
\* lengths, the process stops with a non-zero status before any network
\* request, and the diagnostic names the check that failed.
C6_StartupHaltsWithDiagnostic ==
    LET missing ==
          \/ ~Truthy(env.OPENSEA_API_KEY)
          \/ ~Truthy(env.RPC_URL)
          \/ ~Truthy(env.TARGET_CONTRACT_ADDRESS)
          \/ ~Truthy(env.LISTING_PRICE_IN_ETH)
          \/ ~Truthy(env.LISTING_DURATION_MINUTES)
          \/ ~env.WALLETS.set
          \/ ~env.PRIVATE_KEYS.set
        mismatch ==
          /\ env.WALLETS.set /\ env.PRIVATE_KEYS.set
          /\ Len(WALLETS) # Len(PRIVATE_KEYS)
    IN  (pc # "startup" /\ (missing \/ mismatch)) =>
          /\ pc = "done"
          /\ exitCode # 0 /\ exitCode # -1
          /\ calls = <<>>
          /\ missing => stderr = "EnvMissing"
          /\ ~missing => stderr = "LengthMismatch"

\* C7: at most one network request is in flight at any time; a request is
\* in flight only while main waits for it, each POST directly follows its
\* own signature, and before that signature and before each holdings GET
\* the previous request has been answered and its delay has completed.
C7_OneRequestInFlight ==
    /\ inflight \in {0, 1}
    /\ inflight = 1 <=> pc \in {"holdings", "post"}
    /\ \A p \in DOMAIN calls :
         /\ calls[p].kind = "POST" =>
              /\ p > 1 /\ calls[p - 1].kind = "SIGN" /\ calls[p - 1].ok
              /\ p > 2 /\ calls[p - 2].kind \in {"GET", "DELAY"}
         /\ (calls[p].kind = "GET" /\ p > 1) =>
              calls[p - 1].kind \in {"GET", "DELAY"}

\* C7 witness: the second wallet's holdings GET is in flight after the
\* first wallet's listing was posted and answered.
C7_Witness ==
    /\ pc = "holdings"
    /\ i = 2
    /\ inflight = 1
    /\ CallsAt("POST", 1) # {}

\* C8: a full delay follows every return of listNFT, successful or not,
\* before anything else is issued: the call after a RETURN is its DELAY,
\* DELAY_MS later, main is in the delay right after a RETURN, and any two
\* listing POSTs of a run are at least DELAY_MS apart.
C8_DelayAfterEveryAttempt ==
    /\ \A p \in DOMAIN calls :
         calls[p].kind = "RETURN" =>
           IF p = Len(calls) THEN pc = "delay"
           ELSE /\ calls[p + 1].kind = "DELAY"
                /\ calls[p + 1].w = calls[p].w
                /\ calls[p + 1].id = calls[p].id
                /\ calls[p + 1].at = calls[p].at + DELAY_MS
    /\ \A p, q \in CallsOfKind("POST") :
         p < q => calls[q].at >= calls[p].at + DELAY_MS
    /\ \A p \in CallsOfKind("RETURN"), q \in CallsOfKind("GET") :
         p < q => calls[q].at >= calls[p].at + DELAY_MS

\* C8 witness: two POSTs in different wallets, the first of them rejected,
\* exactly one delay apart.
C8_Witness ==
    \E p, q \in CallsOfKind("POST") :
      /\ p < q
      /\ calls[p].w # calls[q].w
      /\ LogOf("FAILED", calls[p].w, calls[p].id) # {}
      /\ calls[q].at = calls[p].at + DELAY_MS

\* C9: for a wallet whose holdings answer holds no nft of the target
\* contract nothing is signed, posted or delayed; the log gets the "no
\* NFTs" entry and no failure entry, directly followed by the next
\* wallet's header or the end message; a run made only of such wallets
\* exits 0.
C9_NoMatchingNfts ==
    /\ \A w \in 1..NumWallets :
         (Answered(w) /\ Matching(w) = <<>>) =>
           /\ \A kind \in {"SIGN", "POST", "RETURN", "DELAY"} :
                CallsAt(kind, w) = {}
           /\ \A tag \in {"START", "FAILED", "FETCH_ERROR", "FOUND", "FATAL"} :
                LogAt(tag, w) = {}
           /\ Cardinality(LogAt("NONE", w)) = 1
           /\ pc \in {"loop", "done"} \/ i > w
           /\ \A k \in LogAt("NONE", w) :
                k < Len(log) =>
                  \/ log[k + 1] = Entry("HEADER", w + 1, 0)
                  \/ log[k + 1] = Entry("END", 0, 0)
    /\ ( /\ pc = "done"
         /\ NumWallets > 0
         /\ \A w \in 1..NumWallets : Answered(w) /\ Matching(w) = <<>> ) =>
           /\ exitCode = 0
           /\ Finished
           /\ clock = 0
           /\ \A p \in DOMAIN calls : calls[p].kind = "GET"

\* C9 witness: a run of two wallets, each holding only nfts of other
\* contracts, has ended.
C9_Witness ==
    /\ pc = "done"
    /\ NumWallets = 2
    /\ \A w \in 1..NumWallets : Answered(w) /\ Matching(w) = <<>>
    /\ \E k \in DOMAIN responses : responses[k].nfts # <<>>

\* C10: for a wallet whose n attempted tokens were all submitted, k of
\* them accepted, the log holds k SUCCESS and n - k FAILED outcome entries
\* for it (one per attempt); with n = 2 and k = 1 the run exits 0 and the
\* following wallets are still queried.
C10_OneOutcomeEntryPerAttempt ==
    pc = "done" =>
      \A w \in 1..NumWallets :
        LET n == Cardinality(CallsAt("POST", w))
            k == Cardinality({c \in CallsAt("RETURN", w) : calls[c].ok})
        IN  (Answered(w) /\ n > 0 /\ n = Len(Matching(w))) =>
              /\ Cardinality(LogAt("SUCCESS", w)) = k
              /\ Cardinality(LogAt("FAILED", w)) = n - k
              /\ (n = 2 /\ k = 1) =>
                   /\ exitCode = 0
                   /\ \A j \in (w + 1)..NumWallets : Queried(j)

\* Two addresses are equal ignoring letter case: same length and, at each
\* position, the same character or the two cases of one letter.
CasePairs == {<<"a", "A">>, <<"b", "B">>, <<"c", "C">>, <<"d", "D">>}
SameIgnoringCase(x, y) ==
    /\ Len(x) = Len(y)
    /\ \A k \in DOMAIN x :
         \/ x[k] = y[k]
         \/ <<x[k], y[k]>> \in CasePairs
         \/ <<y[k], x[k]>> \in CasePairs

\* C11: a token of a holdings answer is attempted if and only if its
\* contract equals the target address ignoring case: nothing is started,
\* signed or posted for a token of another contract, and once the wallet
\* is settled every token equal up to case has been started.
C11_FilterIgnoresCase ==
    \A r \in DOMAIN responses :
      responses[r].ok =>
        \A p \in DOMAIN responses[r].nfts :
          LET n == responses[r].nfts[p]
              w == responses[r].w
              same == SameIgnoringCase(n.contract, TARGET_CONTRACT_ADDRESS)
          IN  /\ ~same =>
                   /\ LogOf("START", w, n.identifier) = {}
                   /\ CallsOf("SIGN", w, n.identifier) = {}
                   /\ CallsOf("POST", w, n.identifier) = {}
              /\ (same /\ Settled(w)) => LogOf("START", w, n.identifier) # {}

\* C11 witness: a settled wallet whose answer held a token that differs
\* from the target only in case, which was posted, and a token of another
\* contract.
C11_Witness ==
    \E r \in DOMAIN responses :
      /\ responses[r].ok
      /\ Settled(responses[r].w)
      /\ \E p \in DOMAIN responses[r].nfts :
           /\ responses[r].nfts[p].contract # TARGET_CONTRACT_ADDRESS
           /\ SameIgnoringCase(responses[r].nfts[p].contract,
                               TARGET_CONTRACT_ADDRESS)
           /\ CallsOf("POST", responses[r].w,
                      responses[r].nfts[p].identifier) # {}
      /\ \E p \in DOMAIN responses[r].nfts :
           ~SameIgnoringCase(responses[r].nfts[p].contract,
                             TARGET_CONTRACT_ADDRESS)

(* ------------------------- orders and prices -------------------------- *)
\* Every order built so far that is still in listNFT's hands or was signed.
Orders ==
    {orderComponents[k] : k \in DOMAIN orderComponents}
      \cup {signatures[k].order : k \in DOMAIN signatures}

\* The number of minutes each offered duration string denotes.
MinutesDenoted(s) ==
    CASE s = <<"3", "0">> -> 30
      [] s = <<"0">> -> 0

\* The offered price with 19 decimals: not a whole number of wei.
ExcessPrecisionPrice ==
    <<"0", ".", "0", "0", "0", "0", "0", "0", "0", "0", "0", "0",
      "0", "0", "0", "0", "0", "0", "0", "0", "1">>

\* C12: every signed (hence submitted) order has endTime > startTime, and
\* a configured duration of zero or less stops the run at start-up as a
\* configuration error.
C12_EndTimeAfterStartTime ==
    /\ \A k \in DOMAIN signatures :
         signatures[k].order.endTime > signatures[k].order.startTime
    /\ ( /\ pc # "startup"
         /\ env.WALLETS.set /\ env.PRIVATE_KEYS.set
         /\ env.LISTING_DURATION_MINUTES.set
         /\ MinutesDenoted(env.LISTING_DURATION_MINUTES.val) <= 0 ) =>
           /\ pc = "done"
           /\ exitCode = 1
           /\ log = <<>>

\* C13: for every order built, endTime - startTime is exactly the
\* configured minutes times 60, and startTime is the whole second of the
\* Date.now() read when the attempt started.
C13_OrderWindowIsDuration ==
    /\ \A o \in Orders :
         /\ o.endTime - o.startTime
              = MinutesDenoted(env.LISTING_DURATION_MINUTES.val) * 60
         /\ o.startTime * 1000 <= o.builtAt
         /\ o.builtAt < (o.startTime + 1) * 1000
    /\ \A k \in DOMAIN orderComponents :
         orderComponents[k].builtAt = ProcessStartMs + clock

\* C13 witness: a signed order of a 30-minute configuration, built after
\* a delay at a time that is not a whole second.
C13_Witness ==
    \E k \in DOMAIN signatures :
      /\ signatures[k].order.endTime - signatures[k].order.startTime = 1800
      /\ signatures[k].order.builtAt > ProcessStartMs
      /\ signatures[k].order.builtAt # signatures[k].order.startTime * 1000

\* C14: with a price that has more decimals than wei can hold, every
\* attempt ends FAILED right after its START, nothing is signed or posted,
\* listNFT returns false, and every matching token of a settled wallet
\* has been attempted.
C14_PriceErrorFailsEachToken ==
    (env.LISTING_PRICE_IN_ETH.set
       /\ LISTING_PRICE_IN_ETH = ExcessPrecisionPrice) =>
      /\ signatures = <<>>
      /\ orderComponents = <<>>
      /\ \A p \in DOMAIN calls : calls[p].kind \notin {"SIGN", "POST"}
      /\ \A p \in DOMAIN calls : calls[p].kind = "RETURN" => ~calls[p].ok
      /\ \A k \in DOMAIN log :
           /\ log[k].tag # "SUCCESS"
           /\ log[k].tag = "START" =>
                /\ k < Len(log)
                /\ log[k + 1] = Entry("FAILED", log[k].w, log[k].id)
      /\ \A w \in 1..NumWallets :
           (Answered(w) /\ Settled(w)) =>
             \A id \in MatchingIds(w) : LogOf("START", w, id) # {}

\* C14 witness: a finished run with the 19-decimal price in which a wallet
\* had two matching tokens, both attempted and both failed.
C14_Witness ==
    /\ Finished
    /\ LISTING_PRICE_IN_ETH = ExcessPrecisionPrice
    /\ \E w \in 1..NumWallets :
         /\ Answered(w)
         /\ Cardinality(MatchingIds(w)) = 2
         /\ Cardinality(LogAt("FAILED", w)) = 2

\* C17: the counter of every built order is the offerer's current counter
\* on the Seaport contract.
C17_CounterIsOnChainCounter ==
    \A o \in Orders : o.counter = seaportCounter

(* ------------------------------ the log ------------------------------- *)
\* Positions of the log entries with a tag.
LogTagged(tag) == {k \in DOMAIN log : log[k].tag = tag}

\* C18: the START entries outnumber the completed attempts (SUCCESS or
\* FAILED outcome entries) by 0 or 1; every START is directly followed by
\* the outcome of the same token, unless it is the attempt in progress;
\* no token has both a SUCCESS and a FAILED entry.
C18_LogReflectsAttempts ==
    LET starts == Cardinality(LogTagged("START"))
        outcomes == Cardinality(LogTagged("SUCCESS"))
                      + Cardinality(LogTagged("FAILED"))
    IN  /\ starts - outcomes \in {0, 1}
        /\ starts - outcomes = 1 <=> pc \in {"sign", "post"}
        /\ \A k \in LogTagged("START") :
             IF k = Len(log) THEN pc \in {"sign", "post"}
             ELSE /\ log[k + 1].tag \in {"SUCCESS", "FAILED"}
                  /\ log[k + 1].w = log[k].w
                  /\ log[k + 1].id = log[k].id
        /\ \A a \in LogTagged("SUCCESS"), b \in LogTagged("FAILED") :
             ~(log[a].w = log[b].w /\ log[a].id = log[b].id)

\* C18 witness: an attempt is in progress (its POST in flight) after an
\* earlier attempt was completed with a FAILED entry.
C18_Witness ==
    /\ pc = "post"
    /\ LogTagged("FAILED") # {}
    /\ log[Len(log)].tag = "START"

(* ----------------------------- the signer ----------------------------- *)
\* C19: every signature made while wallet index w is processed is made
\* with PRIVATE_KEYS[w], over an order whose offerer and recipient are the
\* address derived from that key, for a token of the answer to the
\* holdings query of WALLETS[w]; WALLETS[w] itself need not be that
\* address.
C19_SignerIsWalletKey ==
    /\ \A k \in DOMAIN signatures :
         LET sg == signatures[k]
         IN  /\ sg.key = PRIVATE_KEYS[sg.w]
             /\ sg.key # MalformedKey
             /\ sg.order.offerer = AddressOf(PRIVATE_KEYS[sg.w])
             /\ sg.order.recipient = AddressOf(PRIVATE_KEYS[sg.w])
             /\ Answered(sg.w)
             /\ \E p \in DOMAIN Matching(sg.w) :
                  /\ Matching(sg.w)[p].contract = sg.order.token
                  /\ Matching(sg.w)[p].identifier = sg.order.identifier
    /\ \A p \in DOMAIN calls :
         calls[p].kind = "GET" => calls[p].id = WALLETS[calls[p].w]

\* C19 witness: signatures exist for two wallets, and the second wallet
\* line is not the address of the second key.
C19_Witness ==
    /\ \E k \in DOMAIN signatures : signatures[k].w = 1
    /\ \E k \in DOMAIN signatures :
         /\ signatures[k].w = 2
         /\ WALLETS[2] # signatures[k].order.offerer

(* ----------------------------- the order ------------------------------ *)
\* The log without the optional response-details lines.
Skeleton(l) == SelectSeq(l, LAMBDA e : e.tag # "FAILED_DETAILS")

\* The outcome entry of the attempt on token id of wallet w: what listNFT
\* returned for it.
Outcome(w, id) ==
    LET k == CHOOSE k \in CallsOf("RETURN", w, id) : TRUE
    IN  Entry(IF calls[k].ok THEN "SUCCESS" ELSE "FAILED", w, id)

\* The entries for the matching tokens of wallet w from position p on.
RECURSIVE TokenLog(_, _)
TokenLog(w, p) ==
    IF p > Len(Matching(w)) THEN <<>>
    ELSE <<Entry("START", w, Matching(w)[p].identifier),
           Outcome(w, Matching(w)[p].identifier)>> \o TokenLog(w, p + 1)

\* The entries for wallet w, fixed by the answer to its holdings query.
WalletLog(w) ==
    <<Entry("HEADER", w, 0)>> \o
      (IF QueryFailed(w) THEN <<Entry("FETCH_ERROR", w, 0)>>
       ELSE IF Matching(w) = <<>> THEN <<Entry("NONE", w, 0)>>
       ELSE <<Entry("FOUND", w, Len(Matching(w)))>> \o TokenLog(w, 1))

\* The entries for the wallets from index w on.
RECURSIVE RunLog(_)
RunLog(w) == IF w > NumWallets THEN <<>> ELSE WalletLog(w) \o RunLog(w + 1)

\* The identifiers of the START entries of wallet w, in log order.
StartedIds(w) ==
    LET st == SelectSeq(log, LAMBDA e : e.tag = "START" /\ e.w = w)
    IN  [k \in DOMAIN st |-> st[k].id]

\* The wallet indices of the HEADER entries, in log order.
HeaderOrder ==
    LET hd == SelectSeq(log, LAMBDA e : e.tag = "HEADER")
    IN  [k \in DOMAIN hd |-> hd[k].w]

\* C16: wallets are processed in index order (the k-th header is wallet
\* k's), the tokens of a wallet are attempted in the order of the holdings
\* answer (the started identifiers are a prefix of the matching ones), and
\* the log of a completed run is the one sequence fixed by the
\* configuration and the external answers.
C16_LogOrderIsDetermined ==
    /\ \A k \in DOMAIN HeaderOrder : HeaderOrder[k] = k
    /\ \A w \in 1..NumWallets :
         StartedIds(w) # <<>> =>
           /\ Answered(w)
           /\ Len(StartedIds(w)) <= Len(Matching(w))
           /\ \A k \in DOMAIN StartedIds(w) :
                StartedIds(w)[k] = Matching(w)[k].identifier
    /\ Finished =>
         Skeleton(log) = <<Entry("BEGIN", NumWallets, 0)>> \o RunLog(1)
                           \o <<Entry("END", 0, 0)>>

\* C16 witness: a completed run over two wallets, the second of which had
\* two matching tokens with different outcomes.
C16_Witness ==
    /\ Finished
    /\ NumWallets = 2
    /\ Answered(2)
    /\ Len(Matching(2)) = 2
    /\ Outcome(2, Matching(2)[1].identifier).tag = "FAILED"
    /\ Outcome(2, Matching(2)[2].identifier).tag = "SUCCESS"

(* ---------------------------- empty lists ----------------------------- *)
\* Both lists are present and hold no line.
EmptyLists ==
    /\ env.WALLETS.set /\ env.WALLETS.val = <<>>
    /\ env.PRIVATE_KEYS.set /\ env.PRIVATE_KEYS.val = <<>>

\* The five scalar values are set and non-empty.
ScalarsPresent ==
    /\ Truthy(env.OPENSEA_API_KEY)
    /\ Truthy(env.RPC_URL)
    /\ Truthy(env.TARGET_CONTRACT_ADDRESS)
    /\ Truthy(env.LISTING_PRICE_IN_ETH)
    /\ Truthy(env.LISTING_DURATION_MINUTES)

\* C20: with both lists present and empty (and the scalars present) the
\* start-up check passes, no holdings query and no listing submission is
\* ever made, and the finished run has logged exactly the start and the
\* completion message and exits 0.
C20_EmptyListsRunIsEmpty ==
    (EmptyLists /\ ScalarsPresent) =>
      /\ validation(env) = "ok"
      /\ exitCode # 1
      /\ stderr = "none"
      /\ calls = <<>>
      /\ responses = <<>>
      /\ signatures = <<>>
      /\ pc \in {"startup", "main", "loop", "done"}
      /\ pc = "done" =>
           /\ log = <<Entry("BEGIN", 0, 0), Entry("END", 0, 0)>>
           /\ exitCode = 0

\* C20 witness: the run over empty lists has ended.
C20_Witness == EmptyLists /\ ScalarsPresent /\ pc = "done"

(* ---------------------------- termination ----------------------------- *)
\* The configuration passes the start-up check and every key is one
\* ethers accepts.
ValidConfiguration ==
    /\ validation(env) = "ok"
    /\ \A k \in DOMAIN PRIVATE_KEYS : PRIVATE_KEYS[k] # MalformedKey

\* C15: from a valid configuration the run eventually has queried every
\* wallet up to the last one, logged the completion message, and ended
\* with status 0.
C15_RunCompletes ==
    (pc = "startup" /\ ValidConfiguration)
      ~> (/\ Finished
          /\ exitCode = 0
          /\ \A w \in 1..NumWallets : Queried(w)
          /\ log[Len(log)] = Entry("END", 0, 0))

\* C15 witness: a run over the most wallets offered completed, the last
\* wallet having had a token listed.
C15_Witness ==
    /\ Finished
    /\ ValidConfiguration
    /\ NumWallets = MaxWallets
    /\ LogAt("SUCCESS", NumWallets) # {}

====
